---- MODULE Spec2Model ----
(***************************************************************************)
(* Model of the OIDC bearer-token identity resolver of aserto-idp:         *)
(*   aserto_idp/oidc/discovery.py  DiscoveryClient (the key-set cache)     *)
(*   aserto_idp/oidc/provider.py   IdentityProvider (the token resolver)   *)
(*                                                                         *)
(* Coroutines run on one asyncio event loop: a call runs without           *)
(* interruption until it waits for the network inside get_json, so every   *)
(* action below is the code between two such waits.                        *)
(***************************************************************************)
EXTENDS Integers, Sequences, FiniteSets, TLC

\* ------------------------------------------------------------------ bounds
NTasks == 2          \* callers, whose calls may be in flight together
MaxCalls == 2        \* calls one caller makes one after the other (SeqSpec)
MaxRotations == 1    \* times the issuer replaces its JWKS document
MaxWords == 3        \* words of a header passed to the parser directly

Tasks == 1..NTasks

\* ------------------------------------------------------- JSON documents
\* A JSON value as the code sees it: json = "null" is Python's None,
\* json = "object" is a dict. nonempty: the dict has at least one member
\* (Python truthiness of a dict). hasKeys: the dict has a "keys" member;
\* keys: the kids of the JWKs listed under "keys" (a JWK is identified by
\* its kid, which also stands for its key material).
None == [json |-> "null", nonempty |-> FALSE, hasKeys |-> FALSE, keys |-> {}]
EmptyObj == [json |-> "object", nonempty |-> FALSE, hasKeys |-> FALSE, keys |-> {}]
NoKeysObj == [json |-> "object", nonempty |-> TRUE, hasKeys |-> FALSE, keys |-> {}]
Jwks(S) == [json |-> "object", nonempty |-> TRUE, hasKeys |-> TRUE, keys |-> S]

\* The documents the issuer may serve at its jwks_uri when the client is
\* built, well-formed or not.
JwksDocs == {EmptyObj, NoKeysObj, Jwks({}), Jwks({"k1"}), Jwks({"k1", "k2"})}

\* The key sets an issuer publishes when it rotates its keys.
RotatedDocs == {Jwks({"k1"}), Jwks({"k2"}), Jwks({"k1", "k2"})}

\* Mutant: the cached document is never taken to be there.
Truthy_Never(d) == FALSE

\* Mutant: every JSON object counts as cached, the empty one included.
Truthy_NotNone(d) == d.json = "object"

\* Python truthiness: `not self._keyset`, `not keys`.
Truthy(d) == d.json = "object" /\ d.nonempty

\* Mutant: an empty "keys" list counts as a key set.
KeysFalsy_MissingOnly(d) == ~d.hasKeys

\* keyset.get("keys") followed by `if not keys`: TRUE when the value is
\* missing or an empty list.
KeysFalsy(d) == ~d.hasKeys \/ d.keys = {}

\* ------------------------------------------------------------- tokens
\* A JSON claim value: absent, a string, or a number.
Absent == [t |-> "absent", v |-> ""]
Str(s) == [t |-> "str", v |-> s]
Num(s) == [t |-> "num", v |-> s]

CLIENT_ID == "client-1"
NoAudience == ""     \* audience=None of IdentityProvider.__init__
NoAccessToken == ""  \* access_token=None of subject_from_jwt_auth_header
NoKid == ""          \* header without "kid" (or with an empty one)

\* A compact JWT, by what the verification steps read of it.
\*   hdrOk     the JOSE header segment decodes to a JSON object
\*   kid       the header's "kid" (NoKid when missing)
\*   signedBy  the key whose signature the token carries
\*   payloadOk the payload segment decodes to a JSON object
\*   expired   the "exp" claim lies in the past
BaseToken == [hdrOk |-> TRUE, kid |-> "k1", signedBy |-> "k1", payloadOk |-> TRUE,
              expired |-> FALSE, aud |-> Str(CLIENT_ID), azp |-> Absent,
              sub |-> Str("alice"), at_hash |-> Absent]

Garbage == [BaseToken EXCEPT !.hdrOk = FALSE, !.kid = NoKid, !.payloadOk = FALSE]

TokenTable ==
  [n \in {"tGood", "tGood2", "tApi", "tUnknownKid", "tNoKid", "tBadSig", "tExpired",
          "tBadPayload", "tBadAud", "tNoAud", "tAzpOk", "tAzpOther", "tAzpApi",
          "tNoSub", "tNumSub", "tEmptySub", "tAzpOtherEmptySub", "tAzpOtherNumSub", "tAtHash",
          "tAzpOtherNoSub"} |->
     CASE n = "tGood" -> BaseToken
       [] n = "tGood2" -> [BaseToken EXCEPT !.kid = "k2", !.signedBy = "k2", !.sub = Str("bob")]
       [] n = "tApi" -> [BaseToken EXCEPT !.aud = Str("api-1")]
       [] n = "tUnknownKid" -> [BaseToken EXCEPT !.kid = "k3", !.signedBy = "k3"]
       [] n = "tNoKid" -> [BaseToken EXCEPT !.kid = NoKid]
       [] n = "tBadSig" -> [BaseToken EXCEPT !.signedBy = "forged"]
       [] n = "tExpired" -> [BaseToken EXCEPT !.expired = TRUE]
       [] n = "tBadPayload" -> [BaseToken EXCEPT !.payloadOk = FALSE]
       [] n = "tBadAud" -> [BaseToken EXCEPT !.aud = Str("someone-else")]
       [] n = "tNoAud" -> [BaseToken EXCEPT !.aud = Absent]
       [] n = "tAzpOk" -> [BaseToken EXCEPT !.azp = Str(CLIENT_ID)]
       [] n = "tAzpOther" -> [BaseToken EXCEPT !.azp = Str("other-client")]
       [] n = "tAzpApi" -> [BaseToken EXCEPT !.aud = Str("api-1"), !.azp = Str("api-1")]
       [] n = "tNoSub" -> [BaseToken EXCEPT !.sub = Absent]
       [] n = "tNumSub" -> [BaseToken EXCEPT !.sub = Num("42")]
       [] n = "tEmptySub" -> [BaseToken EXCEPT !.sub = Str("")]
       [] n = "tAzpOtherEmptySub" -> [BaseToken EXCEPT !.azp = Str("other-client"), !.sub = Str("")]
       [] n = "tAzpOtherNumSub" -> [BaseToken EXCEPT !.azp = Str("other-client"), !.sub = Num("42")]
       [] n = "tAtHash" -> [BaseToken EXCEPT !.at_hash = Str("hash-of-at1")]
       [] n = "tAzpOtherNoSub" -> [BaseToken EXCEPT !.azp = Str("other-client"), !.sub = Absent]]

TokenNames == DOMAIN TokenTable

\* The token a header word denotes; a word that is no JWT does not decode.
TokenOf(w) == IF w \in TokenNames THEN TokenTable[w] ELSE Garbage

\* ------------------------------------------------------------ strings
\* A Python str is a sequence of symbols. A symbol is one character, or a
\* chunk: a run of ASCII letters and digits written as one symbol (a token
\* name, a host name). Concat gives the str as TLA+ writes it.
RECURSIVE Concat(_)
Concat(s) == IF s = <<>> THEN "" ELSE Head(s) \o Concat(Tail(s))

\* Characters str.split() treats as separators.
WS == {" ", "\t", "\n"}

\* Mutant: only the blank separates words.
RECURSIVE Split_BlankOnly(_)
Split_BlankOnly(header) ==
  LET idx == {k \in 1..Len(header) : header[k] = " "} IN
    IF header = <<>> THEN <<>>
    ELSE IF idx = {} THEN <<header>>
    ELSE LET k == CHOOSE j \in idx : \A m \in idx : j <= m
             rest == Split_BlankOnly(SubSeq(header, k + 1, Len(header)))
         IN IF k = 1 THEN rest ELSE <<SubSeq(header, 1, k - 1)>> \o rest

\* header.split(): the maximal runs of symbols that are not whitespace, in
\* order. cur is the run being read, parts the runs read so far.
RECURSIVE SplitFrom(_, _, _)
SplitFrom(s, cur, parts) ==
  LET closed == IF cur = <<>> THEN parts ELSE Append(parts, cur) IN
    IF s = <<>> THEN closed
    ELSE IF Head(s) \in WS THEN SplitFrom(Tail(s), <<>>, closed)
    ELSE SplitFrom(Tail(s), Append(cur, Head(s)), parts)

Split(header) == SplitFrom(header, <<>>, <<>>)

\* str.lower() on one character. A chunk stands for itself: no chunk is a
\* piece of "bearer" or of a URL scheme the code compares with.
LowerChar(c) ==
  CASE c = "B" -> "b" [] c = "E" -> "e" [] c = "A" -> "a" [] c = "R" -> "r"
    [] c = "H" -> "h" [] c = "T" -> "t" [] c = "P" -> "p" [] c = "S" -> "s"
    [] c = "F" -> "f"
    [] OTHER -> c

\* Mutant: the comparison is case-sensitive.
Lower_Identity(w) == w

\* str.lower()
Lower(w) == [k \in 1..Len(w) |-> LowerChar(w[k])]

\* ------------------------------------------------------------ headers
\* Spellings of the scheme word, and other first words.
BearerTitle == <<"B", "e", "a", "r", "e", "r">>
BearerLower == <<"b", "e", "a", "r", "e", "r">>
BearerUpper == <<"B", "E", "A", "R", "E", "R">>
BearerMixed == <<"b", "E", "a", "R", "e", "r">>
Basic == <<"b", "a", "s", "i", "c">>

\* The header `Bearer <token>`.
BearerHeader(token) == BearerTitle \o <<" ", token>>

\* The headers the callers of the state machine pass (test_oidc.py's, and
\* one per token).
Headers ==
  {BearerHeader(n) : n \in TokenNames} \cup
  { <<>>, <<" ">>, <<"\t", " ">>,
    Basic \o <<" ", "tGood">>, <<"tGood">>, Basic \o <<" ", "tGood", " ", "123">>,
    BearerLower \o <<" ">>, BearerUpper,
    BearerLower \o <<" ", "xyz", " ", "123">>,
    <<" ">> \o BearerUpper \o <<"\t", "tGood", " ">>, BearerLower \o <<" ", "xyz">> }

\* -------------------------------------------------------------- errors
\* What a call produced: err = "" is a normal return; otherwise err is the
\* class of the exception that reaches the caller and msg tells which
\* raise statement produced it.
Ok == [err |-> "", msg |-> ""]
Raise(e, m) == [err |-> e, msg |-> m]

\* errors.py: DiscoveryError derives from AccessTokenError. JWTError is
\* python-jose's exception class (and its subclasses), KeyError is the
\* builtin, TransportError stands for what aiohttp raises on a failed or
\* timed-out request; none of these derive from AccessTokenError.
IsAccessTokenError(e) == e \in {"AccessTokenError", "DiscoveryError"}

\* ------------------------------------------------ provider.py, pure parts
\* Mutant: the audience argument is ignored.
Audience_ClientIdOnly(audienceArg) == CLIENT_ID

\* IdentityProvider.__init__: self.audience = audience or client_id
Audience(audienceArg) == IF audienceArg = NoAudience THEN CLIENT_ID ELSE audienceArg

\* Mutant: the number of words is looked at before the scheme.
ParseAuthorizationHeader_CountFirst(header) ==
  LET parts == Split(header) IN
    IF Len(parts) = 0
      THEN [res |-> Raise("AccessTokenError", "Authorization header missing"), token |-> ""]
    ELSE IF Len(parts) = 1
      THEN [res |-> Raise("AccessTokenError", "Bearer token not found"), token |-> ""]
    ELSE IF Len(parts) > 2
      THEN [res |-> Raise("AccessTokenError", "Authorization header must be a valid Bearer token"), token |-> ""]
    ELSE IF Concat(Lower(parts[1])) # "bearer"
      THEN [res |-> Raise("AccessTokenError", "Authorization header must start with 'Bearer'"), token |-> ""]
    ELSE [res |-> Ok, token |-> Concat(parts[2])]

\* IdentityProvider._parse_authorization_header: the error raised, or Ok
\* and the bearer token (token is meaningful only with Ok).
ParseAuthorizationHeader(header) ==
  LET parts == Split(header) IN
    IF Len(parts) = 0
      THEN [res |-> Raise("AccessTokenError", "Authorization header missing"), token |-> ""]
    ELSE IF Concat(Lower(parts[1])) # "bearer"
      THEN [res |-> Raise("AccessTokenError", "Authorization header must start with 'Bearer'"), token |-> ""]
    ELSE IF Len(parts) = 1
      THEN [res |-> Raise("AccessTokenError", "Bearer token not found"), token |-> ""]
    ELSE IF Len(parts) > 2
      THEN [res |-> Raise("AccessTokenError", "Authorization header must be a valid Bearer token"), token |-> ""]
    ELSE [res |-> Ok, token |-> Concat(parts[2])]

\* Mutant: a missing kid is passed on.
GetKeyId_Unchecked(token) ==
  LET t == TokenOf(token) IN
    IF ~t.hdrOk THEN [res |-> Raise("JWTError", "Error decoding token headers"), kid |-> NoKid]
    ELSE [res |-> Ok, kid |-> t.kid]

\* get_key_id: jwt.get_unverified_header raises JWTError on a token whose
\* header segment does not decode; a missing or empty kid raises
\* AccessTokenError.
GetKeyId(token) ==
  LET t == TokenOf(token) IN
    IF ~t.hdrOk THEN [res |-> Raise("JWTError", "Error decoding token headers"), kid |-> NoKid]
    ELSE IF t.kid = NoKid
      THEN [res |-> Raise("AccessTokenError", "Bearer token does not have 'kid' claim"), kid |-> NoKid]
    ELSE [res |-> Ok, kid |-> t.kid]

\* jwt.decode(token, key, options={"verify_at_hash": ...}, audience=...) of
\* python-jose: signature, payload, then the claims in the library's order
\* (exp, aud, sub, at_hash). A token without "aud" passes the audience
\* check; a "sub" that is present must be a string. The call passes no
\* access_token to jwt.decode, so the library compares at_hash against
\* None. Every failure is a JWTError (or a subclass of it).
JwtDecode(token, key, verify_at_hash, audience) ==
  LET t == TokenOf(token) IN
    IF t.signedBy # key THEN Raise("JWTError", "Signature verification failed")
    ELSE IF ~t.payloadOk THEN Raise("JWTError", "Invalid payload string")
    ELSE IF t.expired THEN Raise("JWTError", "Signature has expired")
    ELSE IF t.aud.t # "absent" /\ t.aud # Str(audience) THEN Raise("JWTError", "Invalid audience")
    ELSE IF t.sub.t = "num" THEN Raise("JWTError", "Subject must be a string")
    ELSE IF verify_at_hash /\ t.at_hash.t # "absent"
      THEN Raise("JWTError", "No access_token provided to compare against at_hash claim")
    ELSE Ok

\* Mutant: azp is compared with the configured audience.
VerifyAndExtract_AzpVsAudience(token, key, access_token, audienceArg) ==
  LET t == TokenOf(token)
      dec == JwtDecode(token, key, access_token # NoAccessToken, Audience(audienceArg))
  IN
    IF dec.err # "" THEN [res |-> dec, ident |-> Absent]
    ELSE IF t.azp.t # "absent" /\ t.azp # Str(Audience(audienceArg))
      THEN [res |-> Raise("AccessTokenError", "'azp' claim does not match client ID"), ident |-> Absent]
    ELSE IF t.sub.t = "absent"
      THEN [res |-> Raise("KeyError", "'sub'"), ident |-> Absent]
    ELSE IF t.sub.t # "str"
      THEN [res |-> Raise("AccessTokenError", "'sub' claim is not a valid identity"), ident |-> Absent]
    ELSE [res |-> Ok, ident |-> t.sub]

\* Mutant: the subject is looked at before azp.
VerifyAndExtract_SubFirst(token, key, access_token, audienceArg) ==
  LET t == TokenOf(token)
      dec == JwtDecode(token, key, access_token # NoAccessToken, Audience(audienceArg))
  IN
    IF dec.err # "" THEN [res |-> dec, ident |-> Absent]
    ELSE IF t.sub.t = "absent"
      THEN [res |-> Raise("KeyError", "'sub'"), ident |-> Absent]
    ELSE IF t.sub.t # "str"
      THEN [res |-> Raise("AccessTokenError", "'sub' claim is not a valid identity"), ident |-> Absent]
    ELSE IF t.azp.t # "absent" /\ t.azp # Str(CLIENT_ID)
      THEN [res |-> Raise("AccessTokenError", "'azp' claim does not match client ID"), ident |-> Absent]
    ELSE [res |-> Ok, ident |-> t.sub]

\* subject_from_jwt_auth_header, lines 29-37: everything after the key is
\* found. ident is the value returned (meaningful only with Ok).
VerifyAndExtract(token, key, access_token, audienceArg) ==
  LET t == TokenOf(token)
      dec == JwtDecode(token, key, access_token # NoAccessToken, Audience(audienceArg))
  IN
    IF dec.err # "" THEN [res |-> dec, ident |-> Absent]
    ELSE IF t.azp.t # "absent" /\ t.azp # Str(CLIENT_ID)
      THEN [res |-> Raise("AccessTokenError", "'azp' claim does not match client ID"), ident |-> Absent]
    ELSE IF t.sub.t = "absent"
      THEN [res |-> Raise("KeyError", "'sub'"), ident |-> Absent]
    ELSE IF t.sub.t # "str"
      THEN [res |-> Raise("AccessTokenError", "'sub' claim is not a valid identity"), ident |-> Absent]
    ELSE [res |-> Ok, ident |-> t.sub]

\* ------------------------------------------------ discovery.py, pure parts
\* Symbols that are ASCII letters (chunks are runs of letters), digits, and
\* the characters urllib.parse allows in a scheme.
Letters == {"h", "t", "p", "s", "f", "H", "T", "P", "S", "F", "issuer", "example", "com"}
Digits == {"1", "8", "0"}
SchemeChars == Letters \cup Digits \cup {"+", "-", "."}

\* urlparse(url).scheme: the text before the first ":" when it is not
\* empty, begins with an ASCII letter and consists of scheme characters;
\* lower-cased. "" when the URL has no scheme.
UrlScheme(url) ==
  LET colons == {k \in 1..Len(url) : url[k] = ":"} IN
    IF colons = {} THEN ""
    ELSE LET i == CHOOSE k \in colons : \A m \in colons : k <= m IN
           IF i > 1 /\ url[1] \in Letters /\ \A k \in 1..(i - 1) : url[k] \in SchemeChars
             THEN Concat(Lower(SubSeq(url, 1, i - 1)))
           ELSE ""

HttpsPrefix == <<"h", "t", "t", "p", "s", ":", "/", "/">>

\* Mutant: the scheme is not checked.
IssuerUrl_AnyScheme(issuer) ==
  IF UrlScheme(issuer) = "" THEN [res |-> Ok, url |-> HttpsPrefix \o issuer]
  ELSE [res |-> Ok, url |-> issuer]

\* issuer_url(issuer): the issuer to store, or the ValueError raised.
IssuerUrl(issuer) ==
  IF UrlScheme(issuer) = "" THEN [res |-> Ok, url |-> HttpsPrefix \o issuer]
  ELSE IF UrlScheme(issuer) # "https"
    THEN [res |-> Raise("ValueError", "OIDC issuer MUST use the 'https' scheme."), url |-> <<>>]
  ELSE [res |-> Ok, url |-> issuer]

\* os.path.join(a, b) for a relative b.
PathJoin(a, b) ==
  IF a = <<>> \/ a[Len(a)] = "/" THEN a \o b ELSE a \o <<"/">> \o b

WellKnown == <<".well-known/openid-configuration">>

\* No DiscoveryClient has been constructed.
NoClient == [exists |-> FALSE, issuer |-> <<>>, discovery_url |-> <<>>]

\* DiscoveryClient.__init__(issuer): the object's issuer and discovery_url
\* (its _keyset is the variable keyset), or the exception of issuer_url,
\* which leaves no object behind.
DiscoveryClientInit(issuer) ==
  LET u == IssuerUrl(issuer) IN
    IF u.res.err # "" THEN [res |-> u.res, client |-> NoClient]
    ELSE [res |-> Ok,
          client |-> [exists |-> TRUE, issuer |-> u.url,
                      discovery_url |-> PathJoin(u.url, WellKnown)]]

\* test_oidc.py: ISSUER = "issuer"
ISSUER == <<"issuer">>

\* ---------------------------------------------------------------- state
VARIABLES
  keyset,       \* DiscoveryClient._keyset: None or the JSON document installed
  audienceArg,  \* the audience argument the IdentityProvider was built with
  cfgHasUri,    \* the issuer's discovery document has a "jwks_uri" member
  issuerJwks,   \* the JWKS document the issuer serves now
  rotations,    \* how many times the issuer replaced its JWKS document
  task,         \* per call slot: the coroutine's position, locals and history
  calls,        \* calls started so far
  cfgFetches,   \* GET requests issued for the discovery document, in total
  jwksFetches,  \* GET requests issued for the JWKS document, in total
  mon,          \* history of the run: are all calls so far the same call?
  client,       \* the DiscoveryClient: whether it exists, issuer, discovery_url
  unit          \* the last direct call of a function: argument and outcome

vars == <<keyset, audienceArg, cfgHasUri, issuerJwks, rotations, task, calls,
          cfgFetches, jwksFetches, mon, client, unit>>

\* A call slot. pc: "idle" (never used), "cfgSent" / "jwksSent" (waiting in
\* get_json for the discovery document / the JWKS document), "jwksRecv"
\* (the issuer has answered, the coroutine has not resumed yet), "done".
\* tok, at: the bearer token and the access_token argument. pass: the
\* iteration of `for _ in range(2)`, 1 or 2 (3: the loop is exhausted).
\* resp: the JWKS document get_json last returned to this call (None
\* before that). The rest is history kept for the properties: the cache
\* when the call began and when it ended, the requests this call issued,
\* whether a JWKS document it received listed its kid (sawKid) or had no
\* usable "keys" (sawBad), the fetch that failed, and the outcome. url: the
\* URL of the JWKS request the call issued last.
IdleTask ==
  [pc |-> "idle", tok |-> "", at |-> NoAccessToken, pass |-> 1, resp |-> None,
   startCache |-> None, endCache |-> None, nCfg |-> 0, nJwks |-> 0,
   sawKid |-> FALSE, sawBad |-> FALSE,
   failedAt |-> "", err |-> "", msg |-> "", ident |-> Absent, url |-> ""]

NewCall(token, access_token, ks) ==
  [IdleTask EXCEPT !.pc = "run", !.tok = token, !.at = access_token, !.startCache = ks]

\* The call ends: a return (res = Ok, identity) or an exception.
Finish(t, res, identity, ks) ==
  [t EXCEPT !.pc = "done", !.err = res.err, !.msg = res.msg, !.ident = identity,
            !.endCache = ks]

InFlight(t) == t.pc \in {"cfgSent", "jwksSent", "jwksRecv"}

\* A coroutine's step: its slot afterwards and the cache afterwards.
Frame(t, ks) == [t |-> t, ks |-> ks]

\* ------------------------------------------------------- discovery.py
\* Mutant: the cache is not cleared.
ClearKeysetCache_Keeps(ks) == ks

\* Mutant: the cache is set to an empty JSON object.
ClearKeysetCache_EmptyObj(ks) == EmptyObj

\* DiscoveryClient.clear_keyset_cache
ClearKeysetCache(ks) == None

\* Mutant: the keys of the fetched document are added to the cached ones.
InstallKeyset_Merge(ks, doc) ==
  IF Truthy(ks) /\ ks.hasKeys /\ doc.hasKeys THEN Jwks(ks.keys \cup doc.keys) ELSE doc

\* Mutant: a KeySet another call installed meanwhile is kept, and handed
\* to the caller.
InstallKeyset_KeepExisting(ks, doc) == IF Truthy(ks) THEN ks ELSE doc

\* keyset(), line 75: self._keyset = <the document get_json returned>
InstallKeyset(ks, doc) == doc

\* Mutant: the failure is wrapped in a DiscoveryError.
OnFetchError_Wrapped(t, which, ks) ==
  [t EXCEPT !.pc = "done", !.failedAt = which, !.err = "DiscoveryError",
            !.msg = "request failed", !.endCache = ks]

\* Mutant: a failed fetch on the retry pass counts as a key not found.
OnFetchError_NotFound(t, which, ks) ==
  IF t.pass = 2
    THEN Finish([t EXCEPT !.failedAt = which], Raise("DiscoveryError", "key not found"), Absent, ks)
  ELSE Finish([t EXCEPT !.failedAt = which], Raise("TransportError", "request failed"), Absent, ks)

\* get_json raised (connection error, timeout): nothing in keyset(),
\* find_signing_key or subject_from_jwt_auth_header catches it.
OnFetchError(t, which, ks) ==
  Finish([t EXCEPT !.failedAt = which], Raise("TransportError", "request failed"), Absent, ks)

\* `for _ in range(2)`
Passes_Three == 2 + 1
Passes == 2

RECURSIVE FindSigningKey(_, _, _)
RECURSIVE ScanKeys(_, _, _)

\* Mutant: the second pass reuses the jwks_uri of the first and requests
\* the JWKS at once.
FindSigningKey_ConfigKept(t, ks, aud) ==
  IF t.pass > Passes
    THEN Frame(Finish(t, Raise("DiscoveryError", "key not found"), Absent, ks), ks)
  ELSE IF ~Truthy(ks) /\ t.nCfg > 0
    THEN Frame([t EXCEPT !.pc = "jwksSent", !.nJwks = @ + 1], ks)
  ELSE IF ~Truthy(ks)
    THEN Frame([t EXCEPT !.pc = "cfgSent", !.nCfg = @ + 1], ks)
  ELSE ScanKeys(t, ks, aud)

\* find_signing_key from the top of an iteration of its loop up to the next
\* wait or the end of the call; keyset() lines 69-70 and 77 included.
FindSigningKey(t, ks, aud) ==
  IF t.pass > Passes
    THEN Frame(Finish(t, Raise("DiscoveryError", "key not found"), Absent, ks), ks)
  ELSE IF ~Truthy(ks)
    THEN Frame([t EXCEPT !.pc = "cfgSent", !.nCfg = @ + 1], ks)
  ELSE ScanKeys(t, ks, aud)

\* find_signing_key lines 48-56 on the document keyset() returned (line 77
\* returns self._keyset, which is ks), then the caller's lines 29-37 when
\* the key is found.
ScanKeys(t, ks, aud) ==
  LET kid == GetKeyId(t.tok).kid IN
    IF KeysFalsy(ks)
      THEN Frame(Finish(t, Raise("DiscoveryError", "Keyset missing required field 'keys'"),
                        Absent, ks), ks)
    ELSE IF kid \in ks.keys
      THEN LET v == VerifyAndExtract(t.tok, kid, t.at, aud)
           IN Frame(Finish(t, v.res, v.ident, ks), ks)
    ELSE FindSigningKey([t EXCEPT !.pass = @ + 1], ClearKeysetCache(ks), aud)

\* subject_from_jwt_auth_header from its first line to the first wait (or
\* to its end, when nothing has to be fetched).
Resolve(header, access_token, ks, aud) ==
  LET p == ParseAuthorizationHeader(header)
      k == GetKeyId(p.token)
      t == NewCall(p.token, access_token, ks)
  IN
    IF p.res.err # "" THEN Frame(Finish(t, p.res, Absent, ks), ks)
    ELSE IF k.res.err # "" THEN Frame(Finish(t, k.res, Absent, ks), ks)
    ELSE FindSigningKey(t, ks, aud)

\* Mutant: the JWKS is requested whatever the discovery document holds.
OnConfig_Unchecked(t, hasUri, ks) == [t EXCEPT !.pc = "jwksSent", !.nJwks = @ + 1]

\* The discovery document the issuer serves: config.get("jwks_uri") is ""
\* (None) when the member is missing.
JwksUri == "https://issuer/.well-known/jwks.json"
ConfigDoc(hasUri) == [jwks_uri |-> IF hasUri THEN JwksUri ELSE ""]

\* keyset() lines 71-75 once the discovery document is there.
OnConfig(t, hasUri, ks) ==
  LET keyset_url == ConfigDoc(hasUri).jwks_uri IN
    IF keyset_url = ""
      THEN Finish(t, Raise("DiscoveryError", "Issuer openid-configuration missing 'jwks_uri'"),
                  Absent, ks)
    ELSE [t EXCEPT !.pc = "jwksSent", !.nJwks = @ + 1, !.url = keyset_url]

\* ------------------------------------------------------ history monitor
\* mon.state = "on" while every call started so far had the same header
\* and access token, none of them failed, and nobody rotated the issuer's
\* keys; "off" for good after that. ident is the identity the first call
\* returned, same tells whether every later return was equal to it.
MonInit == [state |-> "none", hdr |-> <<>>, at |-> NoAccessToken, ident |-> Absent, same |-> TRUE]
MonOff == [MonInit EXCEPT !.state = "off"]

MonStart(m, header, access_token) ==
  IF m.state = "none" THEN [m EXCEPT !.state = "on", !.hdr = header, !.at = access_token]
  ELSE IF m.state = "on" /\ m.hdr = header /\ m.at = access_token THEN m
  ELSE MonOff

MonStep(m, t) ==
  IF m.state # "on" \/ t.pc # "done" THEN m
  ELSE IF t.err # "" THEN MonOff
  ELSE IF m.ident = Absent THEN [m EXCEPT !.ident = t.ident]
  ELSE [m EXCEPT !.same = (@ /\ m.ident = t.ident)]

\* ---------------------------------------------------------------- actions
\* No function has been called directly.
NoUnit == [fn |-> "none", arg |-> <<>>, words |-> <<>>, scheme |-> "", res |-> Ok, token |-> ""]

\* The state after identity_provider(issuer, client_id, audience): nothing
\* cached, no call made. The issuer's documents are whatever it serves.
InitClient ==
  /\ keyset = None
  /\ cfgHasUri \in BOOLEAN
  /\ issuerJwks \in JwksDocs
  /\ rotations = 0
  /\ task = [i \in Tasks |-> IdleTask]
  /\ calls = 0
  /\ cfgFetches = 0
  /\ jwksFetches = 0
  /\ mon = MonInit
  /\ client = DiscoveryClientInit(ISSUER).client
  /\ unit = NoUnit

\* identity_provider(issuer, client_id): the audience is the client id.
Init ==
  /\ audienceArg = NoAudience
  /\ InitClient

\* identity_provider(issuer, client_id) or
\* identity_provider(issuer, client_id, audience="api-1")
InitSeq ==
  /\ audienceArg \in {NoAudience, "api-1"}
  /\ InitClient

\* What a caller passes: a header and an access token (or none).
AllInputs ==
  {<<h, NoAccessToken>> : h \in Headers} \cup
  {<<h, "at1">> : h \in {BearerHeader("tGood"), BearerHeader("tAtHash")}}

\* The inputs of the concurrent callers: calls act on each other through
\* the cache alone, that is through the key id of their token, so these
\* differ in the key id (and one of them ends before any fetch).
KeyInputs ==
  {<<h, NoAccessToken>> : h \in {BearerHeader("tGood"), BearerHeader("tGood2"),
                                   BearerHeader("tUnknownKid"), BearerHeader("tNoKid")}}

\* A caller awaits subject_from_jwt_auth_header(header, access_token).
StartCall(i, header, access_token) ==
  /\ task[i].pc \in {"idle", "done"}
  /\ LET f == Resolve(header, access_token, keyset, audienceArg) IN
       /\ task' = [task EXCEPT ![i] = f.t]
       /\ keyset' = f.ks
       /\ cfgFetches' = cfgFetches + f.t.nCfg
       /\ mon' = MonStep(MonStart(mon, header, access_token), f.t)
  /\ calls' = calls + 1
  /\ UNCHANGED <<client, unit, audienceArg, cfgHasUri, issuerJwks, rotations, jwksFetches>>

\* The discovery document arrives and the coroutine resumes in keyset().
CfgResume(i) ==
  /\ task[i].pc = "cfgSent"
  /\ LET t == OnConfig(task[i], cfgHasUri, keyset) IN
       /\ task' = [task EXCEPT ![i] = t]
       /\ jwksFetches' = jwksFetches + (t.nJwks - task[i].nJwks)
       /\ mon' = MonStep(mon, t)
  /\ UNCHANGED <<client, unit, keyset, audienceArg, cfgHasUri, issuerJwks, rotations, calls, cfgFetches>>

\* The request for the discovery document fails or times out.
CfgFail(i) ==
  /\ task[i].pc = "cfgSent"
  /\ LET t == OnFetchError(task[i], "cfg", keyset) IN
       /\ task' = [task EXCEPT ![i] = t]
       /\ mon' = MonStep(mon, t)
  /\ UNCHANGED <<client, unit, keyset, audienceArg, cfgHasUri, issuerJwks, rotations, calls,
                 cfgFetches, jwksFetches>>

\* The issuer answers the JWKS request with the document it serves now.
JwksServe(i) ==
  /\ task[i].pc = "jwksSent"
  /\ task' = [task EXCEPT ![i].pc = "jwksRecv", ![i].resp = issuerJwks,
                           ![i].sawKid = (@ \/ GetKeyId(task[i].tok).kid \in issuerJwks.keys),
                           ![i].sawBad = (@ \/ KeysFalsy(issuerJwks))]
  /\ UNCHANGED <<client, unit, keyset, audienceArg, cfgHasUri, issuerJwks, rotations, calls,
                 cfgFetches, jwksFetches, mon>>

\* The request for the JWKS document fails or times out.
JwksFail(i) ==
  /\ task[i].pc = "jwksSent"
  /\ LET t == OnFetchError(task[i], "jwks", keyset) IN
       /\ task' = [task EXCEPT ![i] = t]
       /\ mon' = MonStep(mon, t)
  /\ UNCHANGED <<client, unit, keyset, audienceArg, cfgHasUri, issuerJwks, rotations, calls,
                 cfgFetches, jwksFetches>>

\* The JWKS document arrives: keyset() installs and returns it, and
\* find_signing_key goes on to the next wait or to the end of the call.
JwksResume(i) ==
  /\ task[i].pc = "jwksRecv"
  /\ LET f == ScanKeys(task[i], InstallKeyset(keyset, task[i].resp), audienceArg)
     IN
       /\ task' = [task EXCEPT ![i] = f.t]
       /\ keyset' = f.ks
       /\ cfgFetches' = cfgFetches + (f.t.nCfg - task[i].nCfg)
       /\ mon' = MonStep(mon, f.t)
  /\ UNCHANGED <<client, unit, audienceArg, cfgHasUri, issuerJwks, rotations, calls, jwksFetches>>

\* The issuer rotates its keys: it serves another JWKS document from now on.
Rotate ==
  /\ rotations < MaxRotations
  /\ \E d \in RotatedDocs \ {issuerJwks} : issuerJwks' = d
  /\ rotations' = rotations + 1
  /\ mon' = MonOff
  /\ UNCHANGED <<client, unit, keyset, audienceArg, cfgHasUri, task, calls, cfgFetches, jwksFetches>>

\* clear_keyset_cache() runs.
ClearStep ==
  /\ keyset' = ClearKeysetCache(keyset)
  /\ mon' = MonOff
  /\ UNCHANGED <<client, audienceArg, cfgHasUri, issuerJwks, rotations, task, calls,
                 cfgFetches, jwksFetches>>

\* A caller invokes clear_keyset_cache().
Invalidate ==
  /\ ClearStep
  /\ UNCHANGED unit

\* The same, recorded as a direct call.
InvalidateSeq ==
  /\ ClearStep
  /\ unit' = [NoUnit EXCEPT !.fn = "clear_keyset_cache"]

\* Concurrent execution: every caller makes one call, at any time.
StartFresh(i, header, access_token) ==
  /\ task[i].pc = "idle"
  /\ StartCall(i, header, access_token)

Next ==
  \/ \E i \in Tasks : \E in \in KeyInputs : StartFresh(i, in[1], in[2])
  \/ \E i \in Tasks : CfgResume(i)
  \/ \E i \in Tasks : CfgFail(i)
  \/ \E i \in Tasks : JwksServe(i)
  \/ \E i \in Tasks : JwksFail(i)
  \/ \E i \in Tasks : JwksResume(i)
  \/ Rotate
  \/ Invalidate

Spec == Init /\ [][Next]_vars

\* Every HTTP request eventually completes or fails, and the event loop
\* eventually resumes a coroutine whose response is there.
Fairness ==
  \A i \in Tasks :
    /\ WF_vars(CfgResume(i) \/ CfgFail(i))
    /\ WF_vars(JwksServe(i) \/ JwksFail(i))
    /\ WF_vars(JwksResume(i))

FairSpec == Spec /\ Fairness

\* Sequential execution: one caller makes one call after the other, each
\* started when the one before has ended.
StartCallSeq(header, access_token) ==
  /\ calls < MaxCalls
  /\ StartCall(1, header, access_token)

NextSeq ==
  \/ \E in \in AllInputs : StartCallSeq(in[1], in[2])
  \/ \E i \in Tasks : CfgResume(i)
  \/ \E i \in Tasks : CfgFail(i)
  \/ \E i \in Tasks : JwksServe(i)
  \/ \E i \in Tasks : JwksFail(i)
  \/ \E i \in Tasks : JwksResume(i)
  \/ Rotate
  \/ InvalidateSeq

SeqSpec == InitSeq /\ [][NextSeq]_vars

\* Direct calls: a test calls one function once, on a new process.
\* The words a header is made of, and the whitespace around them.
HeaderWords ==
  {BearerTitle, BearerLower, BearerUpper, BearerMixed, BearerLower \o <<"x">>,
   Basic, <<"tGood">>, <<"1", "2", "3">>}
Leads == {<<>>, <<"\t">>}
Gaps == {<<" ">>, <<"\t", " ">>, <<"\n">>}
Trails == {<<>>, <<" ">>}
WordLists == UNION {[1..n -> HeaderWords] : n \in 0..MaxWords}

\* The words of a list, with gap between each two.
RECURSIVE Join(_, _)
Join(words, gap) ==
  IF words = <<>> THEN <<>>
  ELSE IF Len(words) = 1 THEN words[1]
  ELSE words[1] \o gap \o Join(Tail(words), gap)

\* Issuer strings, with the scheme urlparse finds in each ("": none).
Example == <<"example", ".", "com">>
Issuers ==
  { [scheme |-> "", text |-> ISSUER],
    [scheme |-> "", text |-> Example],
    [scheme |-> "", text |-> Example \o <<"/", "issuer">>],
    [scheme |-> "", text |-> <<>>],
    [scheme |-> "", text |-> <<"/", "/">> \o ISSUER],
    [scheme |-> "", text |-> <<"1", "h", "t", "t", "p", ":", "/", "/">> \o ISSUER],
    [scheme |-> "", text |-> <<"/", "issuer", ":", "8", "0">>],
    [scheme |-> "", text |-> <<":", "8", "0">>],
    [scheme |-> "https", text |-> HttpsPrefix \o ISSUER],
    [scheme |-> "https", text |-> HttpsPrefix \o Example \o <<"/">>],
    [scheme |-> "https", text |-> HttpsPrefix \o Example \o <<":", "8", "0", "8", "0", "/">>],
    [scheme |-> "https", text |-> <<"H", "T", "T", "P", "S", ":", "/", "/">> \o ISSUER],
    [scheme |-> "https", text |-> <<"H", "t", "t", "p", "S", ":", "/", "/">> \o Example],
    [scheme |-> "https", text |-> <<"h", "t", "t", "p", "s", ":">> \o ISSUER],
    [scheme |-> "http", text |-> <<"h", "t", "t", "p", ":", "/", "/">> \o ISSUER],
    [scheme |-> "http", text |-> <<"H", "T", "T", "P", ":", "/", "/">> \o Example],
    [scheme |-> "ftp", text |-> <<"f", "t", "p", ":", "/", "/">> \o ISSUER],
    [scheme |-> "https+s", text |-> <<"h", "t", "t", "p", "s", "+", "s", ":", "/", "/">> \o ISSUER],
    [scheme |-> "issuer", text |-> ISSUER \o <<":", "8", "0", "8", "0">>] }

\* Nothing constructed, nothing called.
InitUnit ==
  /\ keyset = None
  /\ audienceArg = NoAudience
  /\ cfgHasUri = TRUE
  /\ issuerJwks = Jwks({"k1"})
  /\ rotations = 0
  /\ task = [i \in Tasks |-> IdleTask]
  /\ calls = 0
  /\ cfgFetches = 0
  /\ jwksFetches = 0
  /\ mon = MonInit
  /\ client = NoClient
  /\ unit = NoUnit

\* IdentityProvider._parse_authorization_header(header)
ParseHeader(words, lead, gap, trail) ==
  /\ unit.fn = "none"
  /\ LET header == lead \o Join(words, gap) \o trail
         p == ParseAuthorizationHeader(header)
     IN unit' = [fn |-> "_parse_authorization_header", arg |-> header, words |-> words,
                 scheme |-> "", res |-> p.res, token |-> p.token]
  /\ UNCHANGED <<keyset, audienceArg, cfgHasUri, issuerJwks, rotations, task, calls,
                 cfgFetches, jwksFetches, mon, client>>

\* DiscoveryClient(issuer)
Construct(in) ==
  /\ unit.fn = "none"
  /\ LET r == DiscoveryClientInit(in.text) IN
       /\ client' = IF r.res.err # "" THEN client ELSE r.client
       /\ keyset' = IF r.res.err # "" THEN keyset ELSE None
       /\ unit' = [fn |-> "DiscoveryClient", arg |-> in.text, words |-> <<>>,
                   scheme |-> in.scheme, res |-> r.res, token |-> ""]
  /\ UNCHANGED <<audienceArg, cfgHasUri, issuerJwks, rotations, task, calls,
                 cfgFetches, jwksFetches, mon>>

NextUnit ==
  \/ \E ws \in WordLists : \E l \in Leads : \E g \in Gaps : \E r \in Trails :
       ParseHeader(ws, l, g, r)
  \/ \E in \in Issuers : Construct(in)

UnitSpec == InitUnit /\ [][NextUnit]_vars

\* ------------------------------------------------------------ properties
\* Vocabulary of the properties, over one call slot t.
Done(t) == t.pc = "done"
KidOf(t) == GetKeyId(t.tok).kid

\* The call got past header parsing and key-id extraction, so it called
\* find_signing_key.
Reached(t) == t.tok # "" /\ GetKeyId(t.tok).res.err = ""

\* The call began with no usable KeySet in the cache.
Cold(t) == ~Truthy(t.startCache)

\* find_signing_key returned a key to the call.
FoundKey(t) ==
  /\ Done(t) /\ Reached(t)
  /\ t.failedAt = ""
  /\ t.err # "DiscoveryError"

\* The signature-and-claim verification step accepted the token.
Decoded(t) ==
  /\ FoundKey(t)
  /\ JwtDecode(t.tok, KidOf(t), t.at # NoAccessToken, Audience(audienceArg)).err = ""

AzpMismatchMsg == "'azp' claim does not match client ID"
SubInvalidMsg == "'sub' claim is not a valid identity"

\* C1: a find_signing_key call that starts on an empty cache, whose
\* requests all succeed and whose JWKS responses are well-formed key sets
\* that do not list the kid, ends with the key-not-found DiscoveryError
\* after exactly two discovery fetches and two JWKS fetches; and a call
\* started on an empty cache never ends key-not-found otherwise.
C1_MissFetchesTwice ==
  \A i \in Tasks :
    LET t == task[i] IN
      (Done(t) /\ Reached(t) /\ Cold(t)) =>
        /\ (cfgHasUri /\ t.failedAt = "" /\ ~t.sawBad /\ ~t.sawKid) =>
             /\ t.err = "DiscoveryError" /\ t.msg = "key not found"
             /\ t.nJwks = 2 /\ t.nCfg = 2
        /\ (t.msg = "key not found") => (t.nJwks = 2 /\ t.nCfg = 2 /\ t.pass = 3)

C1_Witness ==
  \E i \in Tasks :
    /\ Done(task[i]) /\ Cold(task[i]) /\ task[i].msg = "key not found"
    /\ task[i].nJwks = 2 /\ task[i].tok = "tUnknownKid"

\* C2: when the cached KeySet is a key set without the kid, no request of
\* the call fails and the issuer answers the call with no JWKS but one
\* that lists the kid, the call fetches exactly once (one discovery fetch,
\* one JWKS fetch), on its second pass, gets its key without an error
\* from find_signing_key, and the fetched document is the cached KeySet
\* when the call ends.
C2_RotationRecovery ==
  \A i \in Tasks :
    LET t == task[i] IN
      ( /\ Done(t) /\ Reached(t)
        /\ Truthy(t.startCache) /\ ~KeysFalsy(t.startCache)
        /\ KidOf(t) \notin t.startCache.keys
        /\ cfgHasUri /\ t.failedAt = ""
        /\ (t.resp = None \/ KidOf(t) \in t.resp.keys) )
      => /\ t.nCfg = 1 /\ t.nJwks = 1
         /\ FoundKey(t)
         /\ t.pass = 2
         /\ t.endCache = t.resp

C2_Witness ==
  \E i \in Tasks :
    /\ Done(task[i]) /\ task[i].err = ""
    /\ task[i].startCache = Jwks({"k1"}) /\ task[i].tok = "tGood2"
    /\ task[i].endCache \in {Jwks({"k2"}), Jwks({"k1", "k2"})}

\* C3: in sequential execution, while every call so far had the same
\* header and access token, none failed and the issuer's JWKS did not
\* change, at most one discovery fetch and one JWKS fetch were issued in
\* total when a call has ended, every call returned the same identity, the
\* key is in the cached KeySet, and every call after the first issued no
\* request and left the cached KeySet as it was.
C3_CacheHitIdempotent ==
  (mon.state = "on" /\ Done(task[1])) =>
    /\ jwksFetches <= 1 /\ cfgFetches <= 1
    /\ mon.same /\ task[1].err = "" /\ task[1].ident = mon.ident
    /\ Truthy(keyset) /\ KidOf(task[1]) \in keyset.keys
    /\ calls > 1 =>
         /\ task[1].nCfg = 0 /\ task[1].nJwks = 0
         /\ task[1].endCache = task[1].startCache
         /\ keyset = task[1].startCache

C3_Witness ==
  /\ mon.state = "on" /\ Done(task[1]) /\ calls = 2
  /\ jwksFetches = 1 /\ task[1].ident = Str("alice")

\* C4: while all the callers are in flight together on their first pass,
\* each having started on an empty cache, at most one discovery fetch and
\* at most one JWKS fetch have been issued in total.
C4_Singleflight ==
  (\A i \in Tasks : InFlight(task[i]) /\ Cold(task[i]) /\ task[i].pass = 1) =>
    (cfgFetches <= 1 /\ jwksFetches <= 1)

\* C5: a call one of whose fetches failed has ended, with a transport
\* error that is no AccessTokenError, and issued no request after the one
\* that failed.
C5_TransportErrorEndsCall ==
  \A i \in Tasks :
    LET t == task[i] IN
      (t.failedAt # "") =>
        /\ Done(t)
        /\ t.err = "TransportError" /\ ~IsAccessTokenError(t.err)
        /\ t.failedAt = "cfg" => t.nCfg = t.nJwks + 1
        /\ t.failedAt = "jwks" => t.nCfg = t.nJwks
        /\ t.nCfg = IF Cold(t) THEN t.pass ELSE t.pass - 1

C5_Witness ==
  \E i \in Tasks :
    /\ Done(task[i]) /\ task[i].failedAt = "jwks" /\ task[i].pass = 2
    /\ task[i].err = "TransportError"

\* C6: in sequential execution, a call one of whose fetches failed leaves
\* the cached KeySet as it was when the call began.
C6_FailedFetchKeepsCache ==
  \A i \in Tasks :
    (Done(task[i]) /\ task[i].failedAt # "") => task[i].endCache = task[i].startCache

\* C7: a call that ends with an error, none of its fetches having failed,
\* ends with an AccessTokenError when the token's header does not parse,
\* its signature is bad, it is expired, its audience does not match or its
\* payload is malformed.
TokenDefect(w, aud) ==
  LET t == TokenOf(w) IN
    \/ ~t.hdrOk
    \/ t.signedBy # t.kid
    \/ t.expired
    \/ ~t.payloadOk
    \/ (t.aud.t # "absent" /\ t.aud # Str(aud))

C7_TokenFailuresAreAccessTokenErrors ==
  \A i \in Tasks :
    LET t == task[i] IN
      (Done(t) /\ t.tok # "" /\ t.err # "" /\ t.failedAt = ""
        /\ TokenDefect(t.tok, Audience(audienceArg)))
      => IsAccessTokenError(t.err)

\* C8: a call whose key was found and whose token has a good signature,
\* a matching audience and passes the azp check, but has no `sub` or a
\* `sub` that is no string, ends with AccessTokenError "'sub' claim is not
\* a valid identity".
SigAndAudOk(w, aud) ==
  LET t == TokenOf(w) IN
    /\ t.hdrOk /\ t.signedBy = t.kid /\ ~t.expired /\ t.payloadOk
    /\ t.aud = Str(aud)
    /\ t.at_hash.t = "absent"

C8_SubMustBeString ==
  \A i \in Tasks :
    LET t == task[i] IN
      ( /\ FoundKey(t)
        /\ SigAndAudOk(t.tok, Audience(audienceArg))
        /\ TokenOf(t.tok).azp.t = "absent"
        /\ TokenOf(t.tok).sub.t # "str" )
      => (t.err = "AccessTokenError" /\ t.msg = SubInvalidMsg)

\* C9: the identity a call returns is a string and is not empty.
C9_IdentityNonEmpty ==
  \A i \in Tasks :
    (Done(task[i]) /\ task[i].err = "") =>
      (task[i].ident.t = "str" /\ task[i].ident.v # "")

\* C10: for a token the signature-and-claim verification step accepted,
\* an `azp` that differs from the client id ends the call with the
\* AccessTokenError of the azp check, whatever the configured audience;
\* without `azp` the call does not fail in the azp check and goes on to
\* subject extraction, which returns a `sub` that is a string.
C10_AzpCheck ==
  \A i \in Tasks :
    LET t == task[i]
        tk == TokenOf(t.tok)
    IN Decoded(t) =>
         /\ (tk.azp.t # "absent" /\ tk.azp # Str(CLIENT_ID)) =>
              (t.err = "AccessTokenError" /\ t.msg = AzpMismatchMsg)
         /\ (tk.azp.t = "absent") =>
              /\ t.msg # AzpMismatchMsg
              /\ tk.sub.t = "str" => (t.err = "" /\ t.ident = tk.sub)

C10_Witness ==
  \E i \in Tasks :
    /\ Decoded(task[i]) /\ audienceArg = "api-1" /\ task[i].tok = "tAzpApi"
    /\ task[i].msg = AzpMismatchMsg

\* The issuer's JWKS lists the call's kid: the KeySet the call found in the
\* cache does, or a JWKS document the issuer sent to the call does.
KidListed(t) ==
  \/ Truthy(t.startCache) /\ KidOf(t) \in t.startCache.keys
  \/ t.sawKid

\* C11: round trip. A call without a companion access token, with a
\* header `Bearer <token>` whose token has a kid the issuer's JWKS lists, is
\* validly signed by that key (well-formed payload, not expired), has aud
\* equal to the configured audience (the client id unless an audience was
\* given), azp absent or equal to the client id, and a string sub, returns
\* exactly the value of the sub claim.
C11_RoundTrip ==
  \A i \in Tasks :
    LET t == task[i]
        w == TokenOf(t.tok)
    IN (/\ Done(t) /\ Reached(t) /\ KidListed(t)
        /\ t.at = NoAccessToken
        /\ w.signedBy = KidOf(t) /\ w.payloadOk /\ ~w.expired
        /\ w.aud = Str(IF audienceArg = NoAudience THEN CLIENT_ID ELSE audienceArg)
        /\ w.azp \in {Absent, Str(CLIENT_ID)}
        /\ w.sub.t = "str")
       => (t.err = "" /\ t.ident = w.sub)

\* An identity provider built with audience "api-1" has resolved a token
\* minted for that audience to its subject.
C11_Witness ==
  /\ audienceArg = "api-1"
  /\ \E i \in Tasks :
       /\ Done(task[i]) /\ task[i].tok = "tApi" /\ task[i].at = NoAccessToken
       /\ task[i].err = "" /\ task[i].ident = Str("alice")

\* The header parser was called directly.
Parsed == unit.fn = "_parse_authorization_header"

\* The word is "bearer" in some letter case.
IsBearerWord(w) ==
  /\ Len(w) = 6
  /\ w[1] \in {"b", "B"} /\ w[2] \in {"e", "E"} /\ w[3] \in {"a", "A"}
  /\ w[4] \in {"r", "R"} /\ w[5] \in {"e", "E"} /\ w[6] \in {"r", "R"}

\* C12: a header that is empty or made of whitespace characters only is
\* rejected with AccessTokenError "Authorization header missing".
C12_BlankHeaderMissing ==
  (Parsed /\ \A k \in 1..Len(unit.arg) : unit.arg[k] \in {" ", "\t", "\n"})
    => unit.res = Raise("AccessTokenError", "Authorization header missing")

\* The header "\t " (test_parse_empty_header) has been rejected as missing.
C12_Witness ==
  /\ Parsed /\ unit.arg = <<"\t", " ">>
  /\ unit.res.msg = "Authorization header missing"

\* C13: a header whose first whitespace-separated word is not "bearer" in
\* any letter case is rejected with AccessTokenError "Authorization header
\* must start with 'Bearer'", however many words it has.
C13_SchemeCheckedFirst ==
  (Parsed /\ unit.words # <<>> /\ ~IsBearerWord(unit.words[1]))
    => unit.res = Raise("AccessTokenError", "Authorization header must start with 'Bearer'")

\* A header of three words that begins with "basic" has been rejected for
\* its first word, not for its length.
C13_Witness ==
  /\ Parsed
  /\ unit.res.msg = "Authorization header must start with 'Bearer'"
  /\ Len(unit.words) = 3 /\ unit.words[1] = Basic

\* C14: with a first word "bearer" in any letter case, a header of one word
\* is rejected with "Bearer token not found", one of more than two words
\* with "Authorization header must be a valid Bearer token", and one of
\* exactly two words yields its second word unchanged.
C14_WordCountDecides ==
  (Parsed /\ unit.words # <<>> /\ IsBearerWord(unit.words[1]))
    => /\ Len(unit.words) = 1 => unit.res = Raise("AccessTokenError", "Bearer token not found")
       /\ Len(unit.words) > 2 =>
            unit.res = Raise("AccessTokenError", "Authorization header must be a valid Bearer token")
       /\ Len(unit.words) = 2 =>
            /\ unit.res = Ok
            /\ unit.token = Concat(unit.words[2])

\* "bEaRer tGood", written with tabs, has yielded the token tGood.
C14_Witness ==
  /\ Parsed /\ unit.words = <<BearerMixed, <<"tGood">>>>
  /\ unit.arg = <<"\t">> \o BearerMixed \o <<"\t", " ", "tGood">>
  /\ unit.res = Ok /\ unit.token = "tGood"

\* C15: a call whose token has a decodable JOSE header without a kid ends
\* with AccessTokenError "Bearer token does not have 'kid' claim" before the
\* key cache is consulted: it never waits, issues no discovery fetch and no
\* JWKS fetch, and leaves the cached KeySet as it found it.
C15_NoKidBeforeCache ==
  \A i \in Tasks :
    LET t == task[i] IN
      (t.pc # "idle" /\ t.tok # "" /\ TokenOf(t.tok).hdrOk /\ TokenOf(t.tok).kid = NoKid)
        => /\ Done(t)
           /\ t.err = "AccessTokenError"
           /\ t.msg = "Bearer token does not have 'kid' claim"
           /\ t.nCfg = 0 /\ t.nJwks = 0
           /\ t.endCache = t.startCache

\* A call with a kid-less token has been rejected while a KeySet was
\* cached, and the KeySet is still there.
C15_Witness ==
  \E i \in Tasks :
    /\ Done(task[i]) /\ task[i].tok = "tNoKid"
    /\ task[i].err = "AccessTokenError"
    /\ Truthy(task[i].startCache) /\ task[i].endCache = task[i].startCache
    /\ jwksFetches = 1

MissingUriMsg == "Issuer openid-configuration missing 'jwks_uri'"

\* C16: when the discovery document has no jwks_uri, a call that reaches
\* find_signing_key and whose discovery request is answered ends with
\* DiscoveryError after exactly one discovery fetch: it requests no JWKS
\* document, makes no second pass, and the cache stays empty.
C16_MissingJwksUri ==
  ~cfgHasUri =>
    /\ keyset = None /\ jwksFetches = 0
    /\ \A i \in Tasks :
         LET t == task[i] IN
           (t.pc # "idle" /\ Reached(t))
             => /\ t.pc \in {"cfgSent", "done"}
                /\ t.nJwks = 0 /\ t.nCfg = 1 /\ t.pass = 1
                /\ (Done(t) /\ t.failedAt = "")
                     => /\ t.err = "DiscoveryError" /\ t.msg = MissingUriMsg
                        /\ t.endCache = None

\* Both callers have been refused for the missing jwks_uri, each after its
\* one discovery fetch.
C16_Witness ==
  /\ ~cfgHasUri /\ cfgFetches = NTasks
  /\ \A i \in Tasks :
       /\ Done(task[i]) /\ task[i].msg = MissingUriMsg /\ task[i].nCfg = 1

MissingKeysMsg == "Keyset missing required field 'keys'"

\* The JWKS document has no "keys" member, or an empty one.
NoUsableKeys(d) == d.hasKeys = FALSE \/ Cardinality(d.keys) = 0

\* C17: a pass of find_signing_key that gets a JWKS document without a
\* "keys" member, or with an empty one, raises DiscoveryError there and
\* then, without a refresh. For a document read from the cache: the call
\* ends in its first step with no request. For a freshly fetched one: the
\* call ends on its arrival, with one discovery and one JWKS request per
\* pass made and none after.
C17_NoKeysNoRetry ==
  \A i \in Tasks :
    LET t == task[i] IN
      (t.pc # "idle" /\ Reached(t)) =>
        /\ (Truthy(t.startCache) /\ NoUsableKeys(t.startCache))
             => /\ Done(t)
                /\ t.err = "DiscoveryError" /\ t.msg = MissingKeysMsg
                /\ t.nCfg = 0 /\ t.nJwks = 0 /\ t.pass = 1
                /\ t.endCache = t.startCache
        /\ (Done(t) /\ t.resp # None /\ NoUsableKeys(t.resp))
             => /\ t.err = "DiscoveryError" /\ t.msg = MissingKeysMsg
                /\ t.pass \in 1..2 /\ t.nCfg = t.pass /\ t.nJwks = t.pass

\* One caller fetched {"keys": []} and was refused; the other then read
\* that document from the cache and was refused without a request.
C17_Witness ==
  \E i, j \in Tasks :
    /\ Done(task[i]) /\ task[i].resp = Jwks({}) /\ task[i].msg = MissingKeysMsg
    /\ task[i].nJwks = 1
    /\ Done(task[j]) /\ task[j].startCache = Jwks({}) /\ task[j].msg = MissingKeysMsg
    /\ task[j].nJwks = 0 /\ task[j].nCfg = 0

\* A step in which clear_keyset_cache ran: the first direct call of it, or
\* a step that changes the cache while no coroutine moves.
ClearSeen ==
  \/ unit' # unit /\ unit'.fn = "clear_keyset_cache"
  \/ task' = task /\ keyset' # keyset

\* clear_keyset_cache leaves the cache absent, whatever it was (absent
\* included), sends nothing and changes no other field.
ClearFrame ==
  ClearSeen =>
    /\ keyset' = None
    /\ client' = client
    /\ cfgFetches' = cfgFetches /\ jwksFetches' = jwksFetches
    /\ UNCHANGED <<audienceArg, cfgHasUri, issuerJwks, rotations, task, calls>>

\* A call that reaches find_signing_key on the cache clear_keyset_cache
\* leaves behind requests the discovery document at once, and the JWKS
\* document when the discovery document has arrived with a jwks_uri.
FreshAfterClear ==
  \A i \in Tasks :
    LET t == task[i] IN
      (t.pc # "idle" /\ Reached(t) /\ t.startCache = None)
        => /\ t.nCfg >= 1
           /\ (cfgHasUri /\ (t.pc \in {"jwksSent", "jwksRecv"} \/ (Done(t) /\ t.failedAt = "")))
                => t.nJwks >= 1

\* C18: clear_keyset_cache sets the cached KeySet to absent, issues no
\* request and changes nothing else (issuer and discovery URL included);
\* on an absent cache it changes nothing; the next call that reaches
\* find_signing_key fetches the discovery document and the JWKS afresh.
C18_ClearKeysetCacheFrame == [][ClearFrame]_vars /\ []FreshAfterClear

\* clear_keyset_cache has been called, and the call made after it, started
\* on the empty cache, fetched both documents and got its identity.
C18_Witness ==
  /\ unit.fn = "clear_keyset_cache" /\ calls = 2 /\ rotations = 0
  /\ cfgFetches = 2 /\ jwksFetches = 2
  /\ Done(task[1]) /\ task[1].startCache = None /\ task[1].err = ""
  /\ task[1].nCfg = 1 /\ task[1].nJwks = 1

\* The URL begins with "https:" in some letter case.
IsHttpsUrl(u) ==
  /\ Len(u) >= 6
  /\ u[1] \in {"h", "H"} /\ u[2] \in {"t", "T"} /\ u[3] \in {"t", "T"}
  /\ u[4] \in {"p", "P"} /\ u[5] \in {"s", "S"} /\ u[6] = ":"

\* C19: every DiscoveryClient that exists has an issuer whose scheme is
\* https. Constructed from a string without a URL scheme it stores
\* "https://" followed by the string; from an https URL it stores the URL
\* unchanged; from a URL of any other scheme the constructor raises and no
\* client comes into being.
C19_IssuerIsHttps ==
  /\ client.exists => IsHttpsUrl(client.issuer)
  /\ unit.fn = "DiscoveryClient" =>
       /\ unit.scheme = "" =>
            /\ unit.res = Ok /\ client.exists
            /\ client.issuer = <<"h", "t", "t", "p", "s", ":", "/", "/">> \o unit.arg
       /\ unit.scheme = "https" =>
            /\ unit.res = Ok /\ client.exists
            /\ client.issuer = unit.arg
       /\ unit.scheme \notin {"", "https"} =>
            /\ unit.res.err = "ValueError"
            /\ ~client.exists

\* test_create: DiscoveryClient("issuer") has the issuer "https://issuer".
C19_Witness ==
  /\ unit.fn = "DiscoveryClient" /\ unit.arg = <<"issuer">>
  /\ client.exists /\ Concat(client.issuer) = "https://issuer"

\* The at_hash claim an ID token issued together with the access token
\* carries: a digest of the access token.
AtHashOf(access_token) == Str("hash-of-" \o access_token)

\* C20: when the caller supplies a companion access token, a call whose
\* token is otherwise valid (key listed, signature, payload, expiry,
\* audience, azp and sub in order) succeeds exactly when the token carries
\* an at_hash claim computed over that access token: a missing or foreign
\* at_hash is rejected, a matching one accepted.
C20_AccessTokenBinding ==
  \A i \in Tasks :
    LET t == task[i]
        w == TokenOf(t.tok)
    IN (/\ Done(t) /\ Reached(t) /\ KidListed(t)
        /\ t.at # NoAccessToken
        /\ w.signedBy = KidOf(t) /\ w.payloadOk /\ ~w.expired
        /\ w.aud = Str(IF audienceArg = NoAudience THEN CLIENT_ID ELSE audienceArg)
        /\ w.azp \in {Absent, Str(CLIENT_ID)}
        /\ w.sub.t = "str")
       => (t.err = "" <=> w.at_hash = AtHashOf(t.at))

\* The documents the issuer ever serves.
ServedDocs == JwksDocs \cup RotatedDocs

\* C21: no torn KeySet. Under every interleaving of the callers and of
\* clear_keyset_cache the cached KeySet is absent or is, whole, the
\* document one JWKS fetch of some call returned, and the KeySet a call
\* scans (the one it found cached, or the one it fetched) is such a
\* document too.
C21_NoTornKeySet ==
  /\ keyset = None \/ \E i \in Tasks : task[i].resp = keyset
  /\ keyset \in {None} \cup ServedDocs
  /\ \A i \in Tasks :
       /\ task[i].startCache \in {None} \cup ServedDocs
       /\ task[i].resp \in {None} \cup ServedDocs
       /\ task[i].endCache \in {None} \cup ServedDocs

\* Two callers fetched different documents (the issuer rotated between
\* them), each installed its own, and the cache holds the second, whole.
C21_Witness ==
  \E i, j \in Tasks :
    /\ Done(task[i]) /\ Done(task[j])
    /\ Truthy(task[i].resp) /\ Truthy(task[j].resp) /\ task[i].resp # task[j].resp
    /\ task[i].endCache = task[i].resp
    /\ task[j].startCache = None
    /\ keyset = task[j].resp /\ task[j].resp = issuerJwks /\ rotations = 1

\* The work one call has done is within the bound of two passes.
BoundedWork ==
  \A i \in Tasks :
    /\ task[i].nCfg <= 2 /\ task[i].nJwks <= 2
    /\ task[i].nJwks <= task[i].nCfg
    /\ InFlight(task[i]) => task[i].pass \in 1..2

\* C22: bounded work. Whatever the kid, the cache the call starts from and
\* the interleaving with other calls, a find_signing_key call issues at
\* most 2 discovery fetches and 2 JWKS fetches in at most two passes, and,
\* provided each request eventually completes or fails, every call that
\* waits for a fetch ends (with a key or an error).
C22_BoundedWork ==
  /\ []BoundedWork
  /\ \A i \in Tasks : InFlight(task[i]) ~> Done(task[i])

\* A call for a kid the issuer does not know has ended after two passes,
\* two discovery fetches and two JWKS fetches.
C22_Witness ==
  \E i \in Tasks :
    /\ Done(task[i]) /\ task[i].tok = "tUnknownKid" /\ task[i].msg = "key not found"
    /\ task[i].nCfg = 2 /\ task[i].nJwks = 2 /\ Truthy(task[i].startCache) = FALSE

\* Each JWKS request of a call comes after a discovery request of its own,
\* made in the same pass, and goes to the jwks_uri of that document.
OwnDiscoveryFirst ==
  \A i \in Tasks :
    LET t == task[i] IN
      /\ t.pc = "cfgSent" => t.nCfg = t.nJwks + 1
      /\ t.pc \in {"jwksSent", "jwksRecv"} =>
           /\ t.nCfg = t.nJwks /\ t.nJwks <= t.pass
           /\ cfgHasUri /\ t.url = "https://issuer/.well-known/jwks.json"
      /\ t.nJwks <= t.nCfg
      /\ (t.pc # "idle" /\ Reached(t) /\ ~Truthy(t.startCache)) => t.nCfg >= 1

\* A step that issues a JWKS request is the step of a call whose discovery
\* document has just arrived.
JwksAfterDiscovery ==
  jwksFetches' # jwksFetches =>
    /\ jwksFetches' = jwksFetches + 1
    /\ \E i \in Tasks :
         /\ task[i].pc = "cfgSent" /\ task'[i].pc = "jwksSent"
         /\ task'[i].nJwks = task[i].nJwks + 1

\* C23: the discovery document is never cached. Every JWKS fetch follows,
\* in the same pass of the same call, a discovery fetch of its own and
\* goes to that document's jwks_uri; the discovery fetches issued are
\* never fewer than the JWKS fetches issued; a call that starts on an
\* empty (invalidated) cache fetches the discovery document again.
C23_DiscoveryNotCached ==
  /\ [](cfgFetches >= jwksFetches /\ OwnDiscoveryFirst)
  /\ [][JwksAfterDiscovery]_vars

\* A call has made two passes, each with its own discovery fetch before
\* its JWKS fetch.
C23_Witness ==
  \E i \in Tasks :
    /\ task[i].pc = "jwksSent" /\ task[i].pass = 2
    /\ task[i].nCfg = 2 /\ task[i].nJwks = 2
    /\ cfgFetches >= 2 /\ jwksFetches >= 2

\* The messages of the header parser and those of key lookup.
ParseMsgs ==
  {"Authorization header missing", "Authorization header must start with 'Bearer'",
   "Bearer token not found", "Authorization header must be a valid Bearer token"}
LookupMsgs == {"key not found", MissingKeysMsg, MissingUriMsg, "request failed"}

\* The token passes the signature-and-claim verification step under its
\* own key: signature, payload, expiry, audience, the library's checks of
\* sub and (with a companion access token) at_hash.
Verifies(t) ==
  LET w == TokenOf(t.tok) IN
    /\ w.signedBy = w.kid /\ w.payloadOk /\ ~w.expired
    /\ w.aud \in {Absent, Str(IF audienceArg = NoAudience THEN CLIENT_ID ELSE audienceArg)}
    /\ w.sub.t # "num"
    /\ t.at = NoAccessToken \/ w.at_hash = Absent

RetryFetchFailed(t) == Done(t) /\ t.pass = 2 /\ t.failedAt # ""

\* C25, as stated: when a fetch of the retry pass fails, the call ends with
\* the DiscoveryError "not found" it raises for a kid that is absent after
\* the retry.
C25_RetryFailureSwallowed ==
  \A i \in Tasks :
    RetryFetchFailed(task[i]) =>
      (task[i].err = "DiscoveryError" /\ task[i].msg = "key not found")

\* C25, amended: when a fetch of the retry pass fails, the call ends with
\* the transport error of that fetch, which is no DiscoveryError; the
\* DiscoveryError "not found" is raised only when both passes got a key
\* set and scanned it, none of the call's fetches having failed.
C25_RetryFailureSurfaces ==
  \A i \in Tasks :
    LET t == task[i] IN
      /\ RetryFetchFailed(t) =>
           (t.err = "TransportError" /\ ~IsAccessTokenError(t.err) /\ t.msg # "key not found")
      /\ (Done(t) /\ t.msg = "key not found") =>
           (t.err = "DiscoveryError" /\ t.failedAt = "" /\ t.pass = 3)

\* The JWKS fetch of a retry pass has failed, and the call has ended with
\* the transport error.
C25_Witness ==
  \E i \in Tasks :
    /\ RetryFetchFailed(task[i]) /\ task[i].failedAt = "jwks"
    /\ task[i].err = "TransportError"

\* C26: no silent fallback. A call returns a subject only if, in that
\* call, the header parsed to a bearer token, the token's header had a
\* kid, a key with that kid was listed in a KeySet of the issuer, the
\* signature verified under that key, aud equalled the configured audience
\* and azp was absent or the client id; the subject returned is the
\* token's sub. Every other call ends with an error and no identity.
C26_NoSilentFallback ==
  \A i \in Tasks :
    LET t == task[i]
        w == TokenOf(t.tok)
    IN Done(t) =>
         /\ t.err # "" => t.ident = Absent
         /\ t.err = "" =>
              /\ t.tok # "" /\ w.hdrOk /\ w.kid # NoKid
              /\ KidListed(t)
              /\ w.signedBy = w.kid
              /\ w.aud = Str(IF audienceArg = NoAudience THEN CLIENT_ID ELSE audienceArg)
              /\ w.azp \in {Absent, Str(CLIENT_ID)}
              /\ t.ident = w.sub /\ t.ident # Absent

\* C27: coroutines switch only at the fetches. Under every interleaving of
\* the callers and of clear_keyset_cache: the KeySet keyset() hands to a
\* call that fetched is the document that call received, never an absent
\* one; a call in its retry pass has fetched for that pass itself; and a
\* call whose last JWKS response lists its kid never ends with
\* key-not-found: it gets its key.
C27_CooperativeSafety ==
  \A i \in Tasks :
    LET t == task[i] IN
      /\ t.pc = "jwksRecv" => (t.resp # None /\ t.resp \in ServedDocs)
      /\ (InFlight(t) /\ t.pass = 2) => t.nCfg >= 1
      /\ (Done(t) /\ t.pass = 2 /\ t.failedAt = "" /\ cfgHasUri) =>
           (t.resp # None /\ t.nJwks >= 1)
      /\ (Done(t) /\ Reached(t) /\ t.failedAt = "" /\ t.resp # None
            /\ KidOf(t) \in t.resp.keys) =>
           /\ t.msg \notin {"key not found", MissingKeysMsg}
           /\ t.err # "DiscoveryError"
           /\ t.endCache = t.resp

\* While a call for k2 waited for its JWKS another call installed a KeySet
\* with k1 only; the first call still scanned the document it had fetched
\* itself and got its key.
C27_Witness ==
  \E i, j \in Tasks :
    /\ i # j
    /\ Done(task[i]) /\ task[i].tok = "tGood2" /\ task[i].err = ""
    /\ task[i].resp = Jwks({"k1", "k2"}) /\ task[i].nJwks = 1
    /\ Done(task[j]) /\ task[j].resp = Jwks({"k1"}) /\ task[j].endCache = Jwks({"k1"})
    /\ task[i].startCache = None /\ task[j].startCache = None
    /\ keyset = Jwks({"k1", "k2"})

\* The call ended with the key-not-found DiscoveryError.
NotFound(t) == Done(t) /\ t.err = "DiscoveryError" /\ t.msg = "key not found"

\* C28: a failed lookup evicts the cache. When find_signing_key ends with
\* key-not-found the cached KeySet is absent at that point (the one fetched
\* on the retry pass and any one cached before the call are gone); started
\* from a populated cache the call has issued exactly one discovery and one
\* JWKS fetch; and a call that reaches find_signing_key on the absent cache,
\* for any kid, fetches the discovery document and the JWKS anew.
C28_FailedLookupEvicts ==
  \A i \in Tasks :
    LET t == task[i] IN
      /\ NotFound(t) =>
           /\ t.endCache = None
           /\ t.resp # None /\ ~NoUsableKeys(t.resp) /\ KidOf(t) \notin t.resp.keys
           /\ Truthy(t.startCache) => (t.nCfg = 1 /\ t.nJwks = 1)
           /\ ~Truthy(t.startCache) => (t.nCfg = 2 /\ t.nJwks = 2)
      /\ (t.pc # "idle" /\ Reached(t) /\ t.startCache = None) =>
           /\ t.nCfg >= 1
           /\ (Done(t) /\ t.failedAt = "" /\ cfgHasUri) => t.nJwks >= 1

\* A lookup that found {k1} cached has failed for an unknown kid after one
\* JWKS fetch, and the cache is empty: k1 is gone with it.
C28_Witness ==
  /\ keyset = None
  /\ \E i \in Tasks :
       /\ NotFound(task[i]) /\ task[i].startCache = Jwks({"k1"})
       /\ task[i].nJwks = 1 /\ task[i].endCache = None

\* A non-empty JSON object without a non-empty "keys" array.
StuckDoc(d) == d # None /\ d.json = "object" /\ d.nonempty /\ NoUsableKeys(d)

\* find_signing_key raised the missing-keys DiscoveryError.
MissingKeys(t) == Done(t) /\ t.err = "DiscoveryError" /\ t.msg = MissingKeysMsg

\* What the calls of C29 leave behind and find.
StuckKeySet ==
  \A i \in Tasks :
    LET t == task[i] IN
      /\ (Done(t) /\ Reached(t) /\ t.failedAt = "" /\ t.nJwks >= 1 /\ StuckDoc(t.resp)) =>
           (MissingKeys(t) /\ t.endCache = t.resp)
      /\ (t.pc # "idle" /\ Reached(t) /\ StuckDoc(t.startCache)) =>
           /\ MissingKeys(t)
           /\ t.nCfg = 0 /\ t.nJwks = 0
           /\ t.endCache = t.startCache
      /\ (Done(t) /\ Reached(t) /\ t.failedAt = "" /\ t.nJwks >= 1 /\ t.resp = EmptyObj) =>
           (MissingKeys(t) /\ t.endCache = EmptyObj)
      /\ (t.pc # "idle" /\ Reached(t) /\ t.startCache \in {EmptyObj, None}) =>
           /\ t.nCfg >= 1
           /\ (Done(t) /\ t.failedAt = "" /\ cfgHasUri) => t.nJwks >= 1

\* A KeySet of that kind leaves the cache only when clear_keyset_cache runs.
StuckUntilCleared == (StuckDoc(keyset) /\ keyset' # keyset) => (ClearSeen /\ keyset' = None)

\* C29: a fetched JWKS response that is a non-empty JSON object without a
\* non-empty "keys" array stays installed after find_signing_key raised
\* DiscoveryError for it; every later find_signing_key call fails with the
\* same DiscoveryError and no HTTP request, until clear_keyset_cache is
\* called, after which a call fetches again. An empty JSON object response
\* is stored but is no cached KeySet: the next call fetches again.
C29_MalformedKeySetSticks == []StuckKeySet /\ [][StuckUntilCleared]_vars

\* The second call of the client found the keyless object the first one had
\* fetched, and failed on it without a request.
C29_Witness ==
  /\ calls = 2 /\ cfgFetches = 1 /\ jwksFetches = 1
  /\ keyset = NoKeysObj
  /\ \E i \in Tasks :
       /\ MissingKeys(task[i]) /\ task[i].startCache = NoKeysObj
       /\ task[i].nCfg = 0 /\ task[i].nJwks = 0

\* The step in which the JWKS fetch of call i completes: the coroutine
\* resumes in keyset() with the response in hand.
FetchCompletes(i) == task[i].pc = "jwksRecv" /\ task'[i] # task[i]

\* The completing call installs the document it fetched, whatever the cache
\* held: the cache holds that document after the step, unless the same step
\* went on to evict it because the document does not list the call's kid.
InstallsOwnFetch ==
  \A i \in Tasks :
    FetchCompletes(i) =>
      LET d == task[i].resp
          kept == NoUsableKeys(d) \/ KidOf(task[i]) \in d.keys
      IN  /\ kept => keyset' = d
          /\ ~kept => keyset' = None
          /\ kept => (Done(task'[i]) /\ task'[i].endCache = d)

\* C30: last writer wins on concurrent refresh. Each of two concurrent
\* find_signing_key calls installs the KeySet it fetched when its own fetch
\* completes, over whatever another call installed meanwhile, so the cache
\* holds the KeySet of the fetch that completed last; the cache may go back
\* from a newer KeySet of the issuer to an older one.
C30_LastWriterWins == [][InstallsOwnFetch]_vars

\* Two calls started on the empty cache. The issuer rotated from {k1} to
\* {k1, k2} between their responses. The call with the newer response
\* finished first and left {k1, k2} in the cache; the cache now holds the
\* older {k1} of the call that finished last.
C30_Witness ==
  /\ rotations = 1 /\ issuerJwks = Jwks({"k1", "k2"})
  /\ keyset = Jwks({"k1"})
  /\ \E i, j \in Tasks :
       /\ i # j /\ Done(task[i]) /\ Done(task[j])
       /\ task[i].startCache = None /\ task[j].startCache = None
       /\ task[i].nJwks = 1 /\ task[j].nJwks = 1
       /\ task[j].resp = issuerJwks /\ task[j].endCache = issuerJwks
       /\ task[i].resp = Jwks({"k1"}) /\ task[i].endCache = Jwks({"k1"})

====
